---------------------------- MODULE Spec2Model ----------------------------
(***************************************************************************)
(* Model of src/src/cli.rs of rbxlx-to-rojo: the textual repair pipeline   *)
(* (protect_shared_sections, replace_invalid_float_literals,               *)
(* strip_invalid_numeric_char_refs, sanitize_xml, restore_shared_sections) *)
(* and the format dispatch of routine().                                   *)
(*                                                                         *)
(* Text is a TLA+ string, read character by character with SubSeq/Len.     *)
(* The characters of the model are printable ASCII plus the controls       *)
(* tab, LF, CR (legal in XML) and form feed (U+000C, illegal in XML).      *)
(* Each regular expression of the source is a matcher over characters that *)
(* returns the end of the leftmost-first match starting at a position      *)
(* (0: no match), and each replace_all / find_iter is a left-to-right scan *)
(* that resumes after the match, as the regex crate does.                  *)
(***************************************************************************)
EXTENDS Integers, Sequences, FiniteSets, TLC

VARIABLES
    pc,             \* position in routine(), or in a direct call sequence
    mode,           \* "routine", or the pass(es) called directly
    file_ext,       \* file_path.extension(): "rbxlx", ..., "none"
    contents,       \* the file's text (String::from_utf8_lossy(&bytes))
    safe_contents,  \* the buffer every pass mutates
    before,         \* safe_contents as the last pass received it
    protected,      \* Vec<String> of captured regions
    changed,        \* the flag the last pass returned
    warnings,       \* log::warn! lines, in order
    trace,          \* stages executed, in order
    outcome,        \* "running", "Ok" or the Problem variant returned
    io              \* [opened, read, log_file, tree]: I/O performed so far

vars == <<pc, mode, file_ext, contents, safe_contents, before, protected,
          changed, warnings, trace, outcome, io>>

(***************************************************************************)
(* Bounds of the model.                                                    *)
(***************************************************************************)
MaxWords == 3

(***************************************************************************)
(* Characters.                                                             *)
(***************************************************************************)
Ch(s, i) == SubSeq(s, i, i)

\* Printable ASCII in code order: U+0020 .. U+005F and U+0061 .. U+007E (a TLA+
\* string cannot hold U+0060, which no pattern of the source mentions).
PrintableLow == " !\"#$%&'()*+,-./0123456789:;<=>?@ABCDEFGHIJKLMNOPQRSTUVWXYZ[\\]^_"
PrintableHigh == "abcdefghijklmnopqrstuvwxyz{|}~"

\* `c as u32` for a character of the model.
CodeTable ==
    [c \in {Ch(PrintableLow, i) : i \in 1..Len(PrintableLow)}
            \cup {Ch(PrintableHigh, i) : i \in 1..Len(PrintableHigh)}
            \cup {"\t", "\n", "\r", "\f"} |->
        CASE c = "\t" -> 9
          [] c = "\n" -> 10
          [] c = "\f" -> 12
          [] c = "\r" -> 13
          [] \E i \in 1..Len(PrintableLow) : Ch(PrintableLow, i) = c ->
                31 + (CHOOSE i \in 1..Len(PrintableLow) : Ch(PrintableLow, i) = c)
          [] OTHER ->
                96 + (CHOOSE i \in 1..Len(PrintableHigh) : Ch(PrintableHigh, i) = c)]

CodeOf(c) == CodeTable[c]

UpperLetters == "ABCDEFGHIJKLMNOPQRSTUVWXYZ"
LowerLetters == "abcdefghijklmnopqrstuvwxyz"

\* Simple case folding of one character, as (?i) applies it to ASCII.
FoldTable ==
    [c \in DOMAIN CodeTable |->
        IF \E i \in 1..26 : Ch(UpperLetters, i) = c
        THEN Ch(LowerLetters, CHOOSE i \in 1..26 : Ch(UpperLetters, i) = c)
        ELSE c]

RECURSIVE Fold(_)
Fold(s) == IF s = "" THEN "" ELSE FoldTable[Head(s)] \o Fold(Tail(s))

\* The literal lit stands in s at position i.
LitAt(s, i, lit) == i + Len(lit) - 1 <= Len(s) /\ SubSeq(s, i, i + Len(lit) - 1) = lit

\* The same under (?i); lit is given in lower case.
LitAtI(s, i, lit) ==
    i + Len(lit) - 1 <= Len(s) /\ Fold(SubSeq(s, i, i + Len(lit) - 1)) = lit

IsDecDigitCode(code) == code >= 48 /\ code <= 57

IsHexDigitCode(code) ==
    \/ IsDecDigitCode(code)
    \/ (code >= 65 /\ code <= 70)
    \/ (code >= 97 /\ code <= 102)

\* Value of a digit of [0-9A-Fa-f], as char::to_digit gives it.
DigitValueOfCode(code) ==
    IF code <= 57 THEN code - 48 ELSE IF code >= 97 THEN code - 87 ELSE code - 55

IsDecDigit(c) == IsDecDigitCode(CodeOf(c))
IsHexDigit(c) == IsHexDigitCode(CodeOf(c))
DigitValue(c) == DigitValueOfCode(CodeOf(c))

\* The least / greatest position of the set P, or none when P is empty.
FirstOf(P, none) == IF P = {} THEN none ELSE CHOOSE i \in P : \A j \in P : i <= j
LastOf(P, none) == IF P = {} THEN none ELSE CHOOSE i \in P : \A j \in P : j <= i

\* First position >= i of s whose character is not a decimal / hex digit (the
\* end of a greedy run of digits that starts at i).
DecRunEnd(s, i) ==
    FirstOf({j \in i..Len(s) : ~IsDecDigit(Ch(s, j))}, IF i > Len(s) THEN i ELSE Len(s) + 1)

HexRunEnd(s, i) ==
    FirstOf({j \in i..Len(s) : ~IsHexDigit(Ch(s, j))}, IF i > Len(s) THEN i ELSE Len(s) + 1)

\* First position >= i of s holding character c; Len(s) + 1 when there is none.
FindChar(s, i, c) == FirstOf({j \in i..Len(s) : Ch(s, j) = c}, Len(s) + 1)

(***************************************************************************)
(* is_valid_xml_codepoint                                                  *)
(***************************************************************************)
is_valid_xml_codepoint(code) ==
    \/ code = 9 \/ code = 10 \/ code = 13
    \/ (code >= 32 /\ code <= 55295)
    \/ (code >= 57344 /\ code <= 65533)
    \/ (code >= 65536 /\ code <= 1114111)

(***************************************************************************)
(* sanitize_xml                                                            *)
(***************************************************************************)
\* text.chars().all(|c| is_valid_xml_codepoint(c as u32))
AllValid(s) == \A i \in 1..Len(s) : is_valid_xml_codepoint(CodeOf(Ch(s, i)))

\* The loop of lines 96-101 from position i on: the valid characters are pushed
\* in order (a run of them at a time), the others are skipped.  bad is the
\* first invalid position at or after i, 0 when there is none.
RECURSIVE CleanedFrom(_, _)
CleanedSkipping(s, i, bad) ==
    IF bad = 0 THEN SubSeq(s, i, Len(s))
    ELSE SubSeq(s, i, bad - 1) \o CleanedFrom(s, bad + 1)

CleanedFrom(s, i) ==
    CleanedSkipping(s, i,
        FirstOf({j \in i..Len(s) : ~is_valid_xml_codepoint(CodeOf(Ch(s, j)))}, 0))

\* A faulty filter: only the first invalid character is dropped.
CleanedOnce(s) ==
    SubSeq(s, 1, FirstOf({j \in 1..Len(s) : ~is_valid_xml_codepoint(CodeOf(Ch(s, j)))}, 1) - 1)
    \o SubSeq(s, FirstOf({j \in 1..Len(s) : ~is_valid_xml_codepoint(CodeOf(Ch(s, j)))}, 0) + 1,
              Len(s))

Cleaned(s) == CleanedFrom(s, 1)

sanitize_xml(text) ==
    IF AllValid(text)
    THEN [text |-> text, changed |-> FALSE]
    ELSE [text |-> Cleaned(text), changed |-> TRUE]

(***************************************************************************)
(* strip_invalid_numeric_char_refs                                         *)
(***************************************************************************)
\* The end of a reference whose digits run from start to e - 1: at least one
\* digit, then ";".
RefClose(s, start, e) == IF e > start /\ LitAt(s, e, ";") THEN e + 1 ELSE 0

\* NUMERIC_CHAR_REF_RE = &#(x[0-9A-Fa-f]+|[0-9]+);   end of the match at i, or 0.
NumericCharRefEnd(s, i) ==
    IF ~LitAt(s, i, "&#") THEN 0
    ELSE IF LitAt(s, i + 2, "x") THEN RefClose(s, i + 3, HexRunEnd(s, i + 3))
    ELSE RefClose(s, i + 2, DecRunEnd(s, i + 2))

\* u32 arithmetic on two 16-bit limbs, [ok, hi, lo]: ok is FALSE once the value
\* no longer fits 32 bits (the parse returns Err).
U32Pack(hi2, lo) == [ok |-> hi2 < 65536, hi |-> hi2 % 65536, lo |-> lo]
U32Carry(hi, lo2) == U32Pack(hi + (lo2 \div 65536), lo2 % 65536)
U32Push(acc, radix, d) == U32Carry(acc.hi * radix, acc.lo * radix + d)

RECURSIVE ParseU32Limbs(_, _, _)
ParseU32Limbs(digits, radix, acc) ==
    IF digits = "" \/ ~acc.ok THEN acc
    ELSE ParseU32Limbs(Tail(digits), radix, U32Push(acc, radix, DigitValue(Head(digits))))

\* -1 for None.  A value of 2^31 or more is given as 2^31 - 1:
\* is_valid_xml_codepoint is false on both.
U32Value(r) ==
    IF ~r.ok THEN -1
    ELSE IF r.hi >= 32768 THEN 2147483647
    ELSE r.hi * 65536 + r.lo

\* u32::from_str_radix(digits, radix).ok() / digits.parse::<u32>().ok()
ParseU32(digits, radix) ==
    U32Value(ParseU32Limbs(digits, radix, [ok |-> TRUE, hi |-> 0, lo |-> 0]))

\* Lines 115-120: the value of caps[1].
RefValue(raw) ==
    IF LitAt(raw, 1, "x") \/ LitAt(raw, 1, "X")
    THEN ParseU32(Tail(raw), 16)
    ELSE ParseU32(raw, 10)

\* Lines 122-128: the reference is kept, or deleted and the flag set.
KeepOrDelete(whole, value) ==
    IF value >= 0 /\ is_valid_xml_codepoint(value)
    THEN [text |-> whole, changed |-> FALSE]
    ELSE [text |-> "", changed |-> TRUE]

\* The closure of replace_all on the match `whole` (caps[0]).
NumericCharRefReplacement(whole) ==
    KeepOrDelete(whole, RefValue(SubSeq(whole, 3, Len(whole) - 1)))

\* NUMERIC_CHAR_REF_RE.replace_all from position i on: the leftmost match at or
\* after i (m, 0 when there is none) is replaced and the scan resumes after it.
RECURSIVE StripRefsFrom(_, _)
StripRefsJoin(prefix, rep, rest) ==
    [text |-> prefix \o rep.text \o rest.text, changed |-> rep.changed \/ rest.changed]

StripRefsAt(s, i, m) ==
    IF m = 0 THEN [text |-> SubSeq(s, i, Len(s)), changed |-> FALSE]
    ELSE StripRefsJoin(SubSeq(s, i, m - 1),
                       NumericCharRefReplacement(SubSeq(s, m, NumericCharRefEnd(s, m) - 1)),
                       StripRefsFrom(s, NumericCharRefEnd(s, m)))

StripRefsFrom(s, i) ==
    StripRefsAt(s, i, FirstOf({j \in i..Len(s) : NumericCharRefEnd(s, j) # 0}, 0))

\* Lines 131-135: the text is replaced only when a reference was deleted.
StripRefsResult(text, r) == IF r.changed THEN r ELSE [text |-> text, changed |-> FALSE]

strip_invalid_numeric_char_refs(text) == StripRefsResult(text, StripRefsFrom(text, 1))

(***************************************************************************)
(* replace_invalid_float_literals                                          *)
(***************************************************************************)
OrElse(a, b) == IF a # 0 THEN a ELSE b

\* Last position in lo..hi of s holding a backslash; 0 when there is none.
LastBackslash(s, lo, hi) == LastOf({j \in lo..hi : Ch(s, j) = "\\"}, 0)

\* The optional tail (?:\\([^)]*\\))? after "nan", which ends at k - 1.  The
\* pattern is a raw string, so \\ is an escaped backslash and the parentheses
\* after it are a group: the tail is a backslash, any characters other than ")"
\* (greedy) and a backslash; b is the last backslash that run can end at.
NanPayloadEnd(k, b) == IF b > 0 THEN b + 1 ELSE k

NanTokenFrom(s, j) ==
    IF ~LitAtI(s, j, "nan") THEN 0
    ELSE IF LitAt(s, j + 3, "\\")
    THEN NanPayloadEnd(j + 3, LastBackslash(s, j + 4, FindChar(s, j + 4, ")") - 1))
    ELSE j + 3

\* First alternative of INVALID_FLOAT_TOKEN_RE: -?nan(?:\\([^)]*\\))?
NanTokenEnd(s, i) == NanTokenFrom(s, IF LitAt(s, i, "-") THEN i + 1 ELSE i)

\* Second alternative, 1\\.\\#(?:inf|ind|qnan|nan) : "1", a backslash, any
\* character but a line feed, a backslash, "#", and one of the four words.
PlatformTokenEnd(s, i) ==
    IF /\ LitAt(s, i, "1\\")
       /\ i + 2 <= Len(s) /\ Ch(s, i + 2) # "\n"
       /\ LitAt(s, i + 3, "\\#")
    THEN IF LitAtI(s, i + 5, "inf") \/ LitAtI(s, i + 5, "ind") THEN i + 8
         ELSE IF LitAtI(s, i + 5, "qnan") THEN i + 9
         ELSE IF LitAtI(s, i + 5, "nan") THEN i + 8
         ELSE 0
    ELSE 0

InfTokenFrom(s, j) == IF LitAtI(s, j, "inf") THEN j + 3 ELSE 0

\* Third alternative, -?inf.
InfTokenEnd(s, i) == InfTokenFrom(s, IF LitAt(s, i, "-") THEN i + 1 ELSE i)

\* INVALID_FLOAT_TOKEN_RE: end of the match that starts at i, or 0; the
\* alternatives are tried in the order written.
InvalidFloatTokenEnd(s, i) ==
    OrElse(NanTokenEnd(s, i), OrElse(PlatformTokenEnd(s, i), InfTokenEnd(s, i)))

\* INVALID_FLOAT_TOKEN_RE.replace_all(text, "0") from position i on; m is the
\* leftmost match at or after i, 0 when there is none.
RECURSIVE ReplaceFloatTokensFrom(_, _)
ReplaceFloatTokensAt(s, i, m) ==
    IF m = 0 THEN [text |-> SubSeq(s, i, Len(s)), changed |-> FALSE]
    ELSE [text |-> SubSeq(s, i, m - 1) \o "0"
                   \o ReplaceFloatTokensFrom(s, InvalidFloatTokenEnd(s, m)).text,
          changed |-> TRUE]

ReplaceFloatTokensFrom(s, i) ==
    ReplaceFloatTokensAt(s, i, FirstOf({j \in i..Len(s) : InvalidFloatTokenEnd(s, j) # 0}, 0))

\* Lines 160-165: is_match, then replace_all and changed = true.
ReplaceFloatTokens(text) == ReplaceFloatTokensFrom(text, 1)

\* char::is_whitespace on the characters of the model.
IsWhitespace(c) == c \in {" ", "\t", "\n", "\r", "\f"}

\* str::split_whitespace from position i on: the non-empty maximal runs of
\* non-whitespace, in order.  b and e are a token's first position and end.
RECURSIVE SplitWhitespaceFrom(_, _)
SplitToken(s, b, e) == <<SubSeq(s, b, e - 1)>> \o SplitWhitespaceFrom(s, e)

SplitAtToken(s, b) ==
    IF b = 0 THEN <<>>
    ELSE SplitToken(s, b, FirstOf({j \in b..Len(s) : IsWhitespace(Ch(s, j))}, Len(s) + 1))

SplitWhitespaceFrom(s, i) ==
    SplitAtToken(s, FirstOf({j \in i..Len(s) : ~IsWhitespace(Ch(s, j))}, 0))

split_whitespace(s) == SplitWhitespaceFrom(s, 1)

RECURSIVE Zeros(_)
Twice(h) == h \o h
Zeros(n) ==
    IF n <= 0 THEN ""
    ELSE IF n % 2 = 0 THEN Twice(Zeros(n \div 2))
    ELSE "0" \o Zeros(n - 1)

LeadingZeros(d) == FirstOf({j \in 1..Len(d) : Ch(d, j) # "0"}, Len(d) + 1) - 1
StripLeadingZeros(d) == SubSeq(d, LeadingZeros(d) + 1, Len(d))
StripTrailingZeros(d) == SubSeq(d, 1, LastOf({j \in 1..Len(d) : Ch(d, j) # "0"}, 0))

\* Saturation of a decimal exponent: beyond it every f64 is infinite or zero.
ExponentCap == 100000

Saturate(v) == IF v > ExponentCap THEN ExponentCap ELSE v

RECURSIVE ExponentValue(_, _)
ExponentValue(digits, acc) ==
    IF digits = "" THEN acc
    ELSE ExponentValue(Tail(digits), Saturate(acc * 10 + DigitValue(Head(digits))))

(***************************************************************************)
(* <f64 as FromStr>::from_str, called on line 172.  The result is          *)
(* [kind, neg, digits, point] with kind "err", "nan", "inf" or "fin"; a    *)
(* finite value is 0.digits * 10^point, digits stripped of leading and     *)
(* trailing zeros ("" for zero).  The value is the exact decimal, which is *)
(* the f64 the source gets for up to 15 significant digits and a decimal   *)
(* exponent within -307 .. 307; above 308 it is infinite, below -324 zero. *)
(***************************************************************************)
F64Constant(kind, neg) == [kind |-> kind, neg |-> neg, digits |-> "", point |-> 0]

\* The spellings tried when the token is no decimal number.
ParseInfNan(neg, body) ==
    IF Fold(body) = "nan" THEN F64Constant("nan", neg)
    ELSE IF Fold(body) \in {"inf", "infinity"} THEN F64Constant("inf", neg)
    ELSE F64Constant("err", FALSE)

Classify(neg, digits, point) ==
    IF digits = "" \/ point - 1 < -324 THEN F64Constant("fin", neg)
    ELSE IF point - 1 > 308 \/ (point - 1 = 308 /\ Head(digits) # "1")
    THEN F64Constant("inf", neg)
    ELSE [kind |-> "fin", neg |-> neg, digits |-> digits, point |-> point]

MakeF64(neg, intDigits, fracDigits, exp) ==
    Classify(neg,
             StripTrailingZeros(StripLeadingZeros(intDigits \o fracDigits)),
             Len(intDigits) - LeadingZeros(intDigits \o fracDigits) + exp)

\* The exponent's digits run from expStart to expEnd - 1 and must end the token.
ParseExponentDigits(neg, body, intDigits, fracDigits, expNeg, expStart, expEnd) ==
    IF expEnd > expStart /\ expEnd = Len(body) + 1
    THEN MakeF64(neg, intDigits, fracDigits,
                 IF expNeg THEN 0 - ExponentValue(SubSeq(body, expStart, expEnd - 1), 0)
                 ELSE ExponentValue(SubSeq(body, expStart, expEnd - 1), 0))
    ELSE ParseInfNan(neg, body)

ParseExponent(neg, body, intDigits, fracDigits, expNeg, expStart) ==
    ParseExponentDigits(neg, body, intDigits, fracDigits, expNeg, expStart,
                        DecRunEnd(body, expStart))

\* The mantissa ends at mEnd - 1: at least one digit, then the end of the token
\* or an exponent.
ParseAfterMantissa(neg, body, intDigits, fracDigits, mEnd) ==
    IF intDigits \o fracDigits = "" THEN ParseInfNan(neg, body)
    ELSE IF mEnd = Len(body) + 1 THEN MakeF64(neg, intDigits, fracDigits, 0)
    ELSE IF LitAtI(body, mEnd, "e")
    THEN ParseExponent(neg, body, intDigits, fracDigits, LitAt(body, mEnd + 1, "-"),
                       IF LitAt(body, mEnd + 1, "-") \/ LitAt(body, mEnd + 1, "+")
                       THEN mEnd + 2 ELSE mEnd + 1)
    ELSE ParseInfNan(neg, body)

ParseAfterInt(neg, body, intEnd) ==
    IF LitAt(body, intEnd, ".")
    THEN ParseAfterMantissa(neg, body, SubSeq(body, 1, intEnd - 1),
                            SubSeq(body, intEnd + 1, DecRunEnd(body, intEnd + 1) - 1),
                            DecRunEnd(body, intEnd + 1))
    ELSE ParseAfterMantissa(neg, body, SubSeq(body, 1, intEnd - 1), "", intEnd)

ParseUnsigned(neg, body) ==
    IF body = "" THEN F64Constant("err", FALSE)
    ELSE ParseAfterInt(neg, body, DecRunEnd(body, 1))

ParseF64(tok) ==
    IF tok # "" /\ Head(tok) \in {"+", "-"}
    THEN ParseUnsigned(Head(tok) = "-", Tail(tok))
    ELSE ParseUnsigned(FALSE, tok)

\* <f64 as Display>::fmt of a parsed value: the shortest decimal that reads back
\* as the same f64, never in exponent notation.
F64Digits(d, p) ==
    IF p <= 0 THEN "0." \o Zeros(0 - p) \o d
    ELSE IF p >= Len(d) THEN d \o Zeros(p - Len(d))
    ELSE SubSeq(d, 1, p) \o "." \o SubSeq(d, p + 1, Len(d))

F64ToString(v) ==
    IF v.kind = "nan" THEN "NaN"
    ELSE (IF v.neg THEN "-" ELSE "")
         \o (IF v.kind = "inf" THEN "inf"
             ELSE IF v.digits = "" THEN "0"
             ELSE F64Digits(v.digits, v.point))

\* .ok().map(|v| v.to_string()).unwrap_or_else(|| "0".to_string())
StringOrZero(v) == IF v.kind = "err" THEN "0" ELSE F64ToString(v)

\* The closure of line 172 on one token.
NormalizeToken(tok) == StringOrZero(ParseF64(tok))

RECURSIVE JoinWith(_, _)
JoinWith(toks, sep) ==
    IF toks = <<>> THEN ""
    ELSE IF Len(toks) = 1 THEN toks[1]
    ELSE toks[1] \o sep \o JoinWith(Tail(toks), sep)

NormalizeTokens(toks) == [k \in 1..Len(toks) |-> NormalizeToken(toks[k])]

\* A faulty closure: a token that does not parse is dropped, not replaced.
normalize_list_dropping(list) ==
    JoinWith(NormalizeTokens(SelectSeq(split_whitespace(list),
                                       LAMBDA tok : ParseF64(tok).kind # "err")), " ")

\* The closure normalize_list (trim and the filter change nothing: split_whitespace
\* yields no empty token and no whitespace).
normalize_list(list) == JoinWith(NormalizeTokens(split_whitespace(list)), " ")

\* NUMBER_SEQUENCE_RE / NUMBER_RANGE_RE = (<Name[^>]*>)([^<]+)(</Name>): the
\* match that starts at i as [open_end, inner_end, end] (the first position
\* after each group), or end = 0.  gt is the first ">" after the name, lt the
\* first "<" after it.
NoContainer == [open_end |-> 0, inner_end |-> 0, end |-> 0]

ContainerClose(s, name, gt, lt) ==
    IF lt = gt + 1 \/ ~LitAt(s, lt, "</" \o name \o ">") THEN NoContainer
    ELSE [open_end |-> gt + 1, inner_end |-> lt, end |-> lt + Len(name) + 3]

ContainerInner(s, name, gt) ==
    IF gt > Len(s) THEN NoContainer
    ELSE ContainerClose(s, name, gt, FindChar(s, gt + 1, "<"))

ContainerMatch(s, i, name) ==
    IF ~LitAt(s, i, "<" \o name) THEN NoContainer
    ELSE ContainerInner(s, name, FindChar(s, i + 1 + Len(name), ">"))

\* replace_all of lines 177-181 / 183-187 from position i on: every match is
\* rewritten by the closure, which sets the flag.
RECURSIVE NormalizeContainersFrom(_, _, _)
RewriteContainer(s, i, name, m) ==
    [text |-> SubSeq(s, i, m.open_end - 1)
              \o normalize_list(SubSeq(s, m.open_end, m.inner_end - 1))
              \o SubSeq(s, m.inner_end, m.end - 1)
              \o NormalizeContainersFrom(s, m.end, name).text,
     changed |-> TRUE]

NormalizeContainersAt(s, i, name, b) ==
    IF b = 0 THEN [text |-> SubSeq(s, i, Len(s)), changed |-> FALSE]
    ELSE RewriteContainer(s, i, name, ContainerMatch(s, b, name))

NormalizeContainersFrom(s, i, name) ==
    NormalizeContainersAt(s, i, name,
        FirstOf({j \in i..Len(s) : ContainerMatch(s, j, name).end # 0}, 0))

NormalizeContainers(text, name) == NormalizeContainersFrom(text, 1, name)

FloatResult(swept, ns, nr) ==
    [text |-> nr.text, changed |-> swept.changed \/ ns.changed \/ nr.changed]

NormalizeRanges(swept, ns) ==
    FloatResult(swept, ns, NormalizeContainers(ns.text, "NumberRange"))

NormalizeSequences(swept) ==
    NormalizeRanges(swept, NormalizeContainers(swept.text, "NumberSequence"))

replace_invalid_float_literals(text) == NormalizeSequences(ReplaceFloatTokens(text))

(***************************************************************************)
(* protect_shared_sections                                                 *)
(***************************************************************************)
ProtectedClose(close) == IF close = 0 THEN 0 ELSE close + 15

\* The open tag ends at gt; the lazy .*? stops at the first close tag of either
\* kind after it.
ProtectedBody(s, gt) ==
    IF gt > Len(s) THEN 0
    ELSE ProtectedClose(FirstOf({j \in (gt + 1)..Len(s) :
                                    \/ LitAtI(s, j, "</sharedstring>")
                                    \/ LitAtI(s, j, "</binarystring>")}, 0))

\* PROTECTED_RE = (?is)<(?:SharedString|BinaryString)[^>]*>.*?</(?:SharedString|BinaryString)>
\* end of the match that starts at i, or 0.
ProtectedEnd(s, i) ==
    IF ~(LitAtI(s, i, "<sharedstring") \/ LitAtI(s, i, "<binarystring")) THEN 0
    ELSE ProtectedBody(s, FindChar(s, i + 13, ">"))

DecimalDigits == "0123456789"

\* format!("{}", idx) for a usize.
RECURSIVE UsizeToString(_)
UsizeToString(n) ==
    IF n < 10 THEN Ch(DecimalDigits, n + 1)
    ELSE UsizeToString(n \div 10) \o Ch(DecimalDigits, (n % 10) + 1)

\* Line 204.
Placeholder(idx) == "__RBX_PROTECTED_CHUNK_" \o UsizeToString(idx) \o "__"

\* The loop over PROTECTED_RE.find_iter(text).enumerate() from position `last`
\* on, idx matches having been seen, and the pushes of lines 203-206.  m and e are
\* the start and the end of the next match.
RECURSIVE ProtectFrom(_, _, _)
ProtectJoin(head, region, rest) ==
    [text |-> head \o rest.text, protected |-> <<region>> \o rest.protected]

ProtectMatch(s, last, idx, m, e) ==
    ProtectJoin(SubSeq(s, last, m - 1) \o Placeholder(idx), SubSeq(s, m, e - 1),
                ProtectFrom(s, e, idx + 1))

ProtectAt(s, last, idx, m) ==
    IF m = 0 THEN [text |-> SubSeq(s, last, Len(s)), protected |-> <<>>]
    ELSE ProtectMatch(s, last, idx, m, ProtectedEnd(s, m))

ProtectFrom(s, last, idx) ==
    ProtectAt(s, last, idx, FirstOf({j \in last..Len(s) : ProtectedEnd(s, j) # 0}, 0))

protect_shared_sections(text) == ProtectFrom(text, 1, 0)

(***************************************************************************)
(* restore_shared_sections                                                 *)
(***************************************************************************)
PlaceholderClose(s, start, e) == IF e > start /\ LitAt(s, e, "__") THEN e + 2 ELSE 0

\* PLACEHOLDER_RE = __RBX_PROTECTED_CHUNK_(\d+)__ : end of the match at i, or 0.
\* (\d is any Unicode decimal digit; the model's digits are the ASCII ones.)
PlaceholderEnd(s, i) ==
    IF ~LitAt(s, i, "__RBX_PROTECTED_CHUNK_") THEN 0
    ELSE PlaceholderClose(s, i + 22, DecRunEnd(s, i + 22))

\* What an index too large for any Vec, or usize::MAX, is modelled as.
UsizeOutOfRange == 2147483647

RECURSIVE SmallDecimal(_, _)
SmallDecimal(digits, acc) ==
    IF digits = "" THEN acc
    ELSE SmallDecimal(Tail(digits), acc * 10 + DigitValue(Head(digits)))

SmallOrOutOfRange(d) == IF Len(d) > 9 THEN UsizeOutOfRange ELSE SmallDecimal(d, 0)

\* caps[1].parse().unwrap_or(usize::MAX): exact below 10^9, out of range above
\* (a longer digit string is a huge index or an overflow; get() is None on both).
ParseUsize(digits) == SmallOrOutOfRange(StripLeadingZeros(digits))

\* protected.get(idx).cloned().unwrap_or_default()
GetOrDefault(regions, idx) == IF idx < Len(regions) THEN regions[idx + 1] ELSE ""

\* PLACEHOLDER_RE.replace_all from position i on; m and e are the start and the
\* end of the next match.
RECURSIVE RestoreFrom(_, _, _)
RestoreMatch(s, i, regions, m, e) ==
    SubSeq(s, i, m - 1)
    \o GetOrDefault(regions, ParseUsize(SubSeq(s, m + 22, e - 3)))
    \o RestoreFrom(s, e, regions)

RestoreAt(s, i, regions, m) ==
    IF m = 0 THEN SubSeq(s, i, Len(s))
    ELSE RestoreMatch(s, i, regions, m, PlaceholderEnd(s, m))

RestoreFrom(s, i, regions) ==
    RestoreAt(s, i, regions, FirstOf({j \in i..Len(s) : PlaceholderEnd(s, j) # 0}, 0))

restore_shared_sections(text, regions) == RestoreFrom(text, 1, regions)

(***************************************************************************)
(* Inputs.  A text is a concatenation of at most MaxWords words; the words *)
(* are the pieces the patterns of the source react to.                     *)
(***************************************************************************)
Extended(shorter, words) == shorter \cup {t \o w : t \in shorter, w \in words}

RECURSIVE TextsOf(_, _)
TextsOf(words, n) == IF n = 0 THEN {""} ELSE Extended(TextsOf(words, n - 1), words)

\* Files given to routine(): a payload container holding an illegal reference
\* and an illegal character, a numeric container, text shaped like a
\* placeholder, and references, characters and spellings the passes rewrite.
RoutineWords ==
    {"<BinaryString>&#x1;\f</BinaryString>", "<NumberSequence>", "</NumberSequence>",
     "__RBX_PROTECTED_CHUNK_", "0__", "&#&#0;", "0;", "na\f", "n-inf"}

\* Texts given to protect_shared_sections / restore_shared_sections.
RoundTripWords ==
    {"<BinaryString>", "</BinaryString>", "<sharedstring k=\"1\">", "</SHAREDSTRING>",
     "nan\n&#0;", "__RBX_PROTECTED_CHUNK_0__", "x"}

\* Texts given to strip_invalid_numeric_char_refs.
RefWords == {"&#", "x", "X", "65", "D800", "abc", "0", "99999999999", ";", " "}

\* Texts given to replace_invalid_float_literals.
FloatWords ==
    {"<NumberSequence>", "</NumberSequence>", "<NumberRange a=\"1\">", "</NumberRange>",
     "1 nan 3", "0.50 garbage\t", "2", "7nan", "-inf", "inity", "NaN(p)", "1.#IND",
     "1e999 -0 2.5e1", "nan\\ a \\"}

\* Texts given to sanitize_xml.
ScrubWords == {"a", "\f", "\t", "\n", "\r", "~", " ", "<x>"}

WordsOf(m) ==
    CASE m = "routine" -> RoutineWords
      [] m = "roundtrip" -> RoundTripWords
      [] m = "char_refs" -> RefWords
      [] m = "float_literals" -> FloatWords
      [] m = "scrub" -> ScrubWords

\* file_path.extension() as the match of line 262 sees it; "none" is None.
Extensions == {"rbxlx", "rbxmx", "rbxl", "rbxm", "RBXLX", "none"}

NoIo == [opened |-> FALSE, read |-> FALSE, log_file |-> FALSE, tree |-> FALSE]

(***************************************************************************)
(* routine()                                                               *)
(***************************************************************************)
Init ==
    /\ mode = "routine"
    /\ pc = "select_file"
    /\ file_ext = "unset"
    /\ contents = ""
    /\ safe_contents = ""
    /\ before = ""
    /\ protected = <<>>
    /\ changed = FALSE
    /\ warnings = <<>>
    /\ trace = <<>>
    /\ outcome = "running"
    /\ io = NoIo

\* `?` on an Err: routine returns the Problem.
Return(problem) == pc' = "done" /\ outcome' = problem

\* Lines 244-253: the path is the first argument or the dialog's answer.
SelectFile ==
    /\ mode = "routine" /\ pc = "select_file"
    /\ \/ \E ext \in Extensions : file_ext' = ext /\ pc' = "open" /\ outcome' = outcome
       \/ Return("NFDCancel") /\ file_ext' = file_ext
       \/ Return("NFDError") /\ file_ext' = file_ext
    /\ UNCHANGED <<mode, contents, safe_contents, before, protected, changed, warnings,
                   trace, io>>

\* Lines 255-259: fs::File::open, before the extension is looked at.
OpenFile ==
    /\ mode = "routine" /\ pc = "open"
    /\ \/ io' = [io EXCEPT !.opened = TRUE] /\ pc' = "dispatch" /\ outcome' = outcome
       \/ Return("IoError") /\ io' = io
    /\ UNCHANGED <<mode, file_ext, contents, safe_contents, before, protected, changed,
                   warnings, trace>>

\* Lines 266-276: read_to_end and String::from_utf8_lossy; the file's text is
\* any text of the model.  The files of the model are valid UTF-8, so
\* contents.len() = bytes.len() and line 275 logs nothing.
ReadXml ==
    /\ mode = "routine" /\ pc = "dispatch" /\ file_ext \in {"rbxmx", "rbxlx"}
    /\ \/ /\ io' = [io EXCEPT !.read = TRUE]
          /\ contents' \in TextsOf(RoutineWords, MaxWords)
          /\ trace' = Append(trace, "lossy_decode")
          /\ pc' = "protect" /\ outcome' = outcome
       \/ Return("IoError") /\ io' = io /\ trace' = trace /\ contents' = contents
    /\ UNCHANGED <<mode, file_ext, safe_contents, before, protected, changed, warnings>>

\* let (mut safe_contents, protected) = r
Bind(r) == safe_contents' = r.text /\ protected' = r.protected

\* Line 278.
Protect ==
    /\ mode = "routine" /\ pc = "protect"
    /\ Bind(protect_shared_sections(contents))
    /\ before' = contents
    /\ trace' = Append(trace, "protect")
    /\ pc' = "float_literals"
    /\ UNCHANGED <<mode, file_ext, contents, changed, warnings, outcome, io>>

\* A repair pass of routine(): the buffer is replaced, the flag decides the
\* warning, and the next statement follows whatever the flag is.
RepairPass(here, r, warning, next) ==
    /\ mode = "routine" /\ pc = here
    /\ safe_contents' = r.text
    /\ changed' = r.changed
    /\ warnings' = IF r.changed THEN Append(warnings, warning) ELSE warnings
    /\ before' = safe_contents
    /\ trace' = Append(trace, here)
    /\ pc' = next
    /\ UNCHANGED <<mode, file_ext, contents, protected, outcome, io>>

\* Lines 280-282.
ReplaceFloats ==
    RepairPass("float_literals", replace_invalid_float_literals(safe_contents),
               "Replaced invalid float literals before decoding.", "char_refs")

\* A faulty ordering: the reference pass hands over to the restoration, and
\* the scrub never runs.
StripRefsThenRestore ==
    RepairPass("char_refs", strip_invalid_numeric_char_refs(safe_contents),
               "Stripped invalid numeric character references before decoding.", "restore")

\* Lines 284-286.
StripRefs ==
    RepairPass("char_refs", strip_invalid_numeric_char_refs(safe_contents),
               "Stripped invalid numeric character references before decoding.", "scrub")

\* Lines 288-290.
Sanitize ==
    RepairPass("scrub", sanitize_xml(safe_contents),
               "Stripped invalid XML characters before decoding.", "restore")

\* Line 292.
Restore ==
    /\ mode = "routine" /\ pc = "restore"
    /\ safe_contents' = restore_shared_sections(safe_contents, protected)
    /\ before' = safe_contents
    /\ trace' = Append(trace, "restore")
    /\ pc' = "decode_xml"
    /\ UNCHANGED <<mode, file_ext, contents, protected, changed, warnings, outcome, io>>

\* Line 294: rbx_xml::from_str_default(&safe_contents), an external decoder that
\* returns a tree or a DecodeError.
DecodeXml ==
    /\ mode = "routine" /\ pc = "decode_xml"
    /\ trace' = Append(trace, "decode_xml")
    /\ \/ pc' = "select_root" /\ outcome' = outcome
       \/ Return("XMLDecodeError")
    /\ UNCHANGED <<mode, file_ext, contents, safe_contents, before, protected, changed,
                   warnings, io>>

\* Lines 296-298: rbx_binary::from_reader(file_source) reads the file itself.
DecodeBinary ==
    /\ mode = "routine" /\ pc = "dispatch" /\ file_ext \in {"rbxm", "rbxl"}
    /\ io' = [io EXCEPT !.read = TRUE]
    /\ trace' = Append(trace, "decode_binary")
    /\ \/ pc' = "select_root" /\ outcome' = outcome
       \/ Return("BinaryDecodeError")
    /\ UNCHANGED <<mode, file_ext, contents, safe_contents, before, protected, changed,
                   warnings>>

\* A faulty dispatch: the unrecognized file is read before it is rejected.
RejectExtensionAfterRead ==
    /\ mode = "routine" /\ pc = "dispatch"
    /\ file_ext \notin {"rbxmx", "rbxlx", "rbxm", "rbxl"}
    /\ Return("InvalidFile")
    /\ io' = [io EXCEPT !.read = TRUE]
    /\ UNCHANGED <<mode, file_ext, contents, safe_contents, before, protected, changed,
                   warnings, trace>>

\* Line 299.
RejectExtension ==
    /\ mode = "routine" /\ pc = "dispatch"
    /\ file_ext \notin {"rbxmx", "rbxlx", "rbxm", "rbxl"}
    /\ Return("InvalidFile")
    /\ UNCHANGED <<mode, file_ext, contents, safe_contents, before, protected, changed,
                   warnings, trace, io>>

\* Lines 302-312.
SelectRoot ==
    /\ mode = "routine" /\ pc = "select_root"
    /\ \/ pc' = "create_log" /\ outcome' = outcome
       \/ Return("NFDCancel")
       \/ Return("NFDError")
    /\ UNCHANGED <<mode, file_ext, contents, safe_contents, before, protected, changed,
                   warnings, trace, io>>

\* Lines 314-319.
CreateLogFile ==
    /\ mode = "routine" /\ pc = "create_log"
    /\ \/ io' = [io EXCEPT !.log_file = TRUE] /\ pc' = "process" /\ outcome' = outcome
       \/ Return("IoError") /\ io' = io
    /\ UNCHANGED <<mode, file_ext, contents, safe_contents, before, protected, changed,
                   warnings, trace>>

\* Lines 321-324.
ProcessInstructions ==
    /\ mode = "routine" /\ pc = "process"
    /\ io' = [io EXCEPT !.tree = TRUE]
    /\ Return("Ok")
    /\ UNCHANGED <<mode, file_ext, contents, safe_contents, before, protected, changed,
                   warnings, trace>>

Next ==
    \/ SelectFile \/ OpenFile \/ ReadXml \/ Protect \/ ReplaceFloats \/ StripRefs
    \/ Sanitize \/ Restore \/ DecodeXml \/ DecodeBinary \/ RejectExtension
    \/ SelectRoot \/ CreateLogFile \/ ProcessInstructions

Spec == Init /\ [][Next]_vars

(***************************************************************************)
(* The functions called on their own, on any text: protect then restore,   *)
(* each repair pass once, the scrub twice in succession.                   *)
(***************************************************************************)
InitCalls ==
    /\ mode \in {"roundtrip", "char_refs", "float_literals", "scrub"}
    /\ pc = "call"
    /\ file_ext = "unset"
    /\ contents \in TextsOf(WordsOf(mode), MaxWords)
    /\ safe_contents = contents
    /\ before = ""
    /\ protected = <<>>
    /\ changed = FALSE
    /\ warnings = <<>>
    /\ trace = <<>>
    /\ outcome = "running"
    /\ io = NoIo

CallProtect ==
    /\ mode = "roundtrip" /\ pc = "call"
    /\ Bind(protect_shared_sections(contents))
    /\ before' = contents
    /\ trace' = Append(trace, "protect")
    /\ pc' = "protected"
    /\ UNCHANGED <<mode, file_ext, contents, changed, warnings, outcome, io>>

CallRestore ==
    /\ mode = "roundtrip" /\ pc = "protected"
    /\ safe_contents' = restore_shared_sections(safe_contents, protected)
    /\ before' = safe_contents
    /\ trace' = Append(trace, "restore")
    /\ pc' = "returned"
    /\ UNCHANGED <<mode, file_ext, contents, protected, changed, warnings, outcome, io>>

\* One call of a pass on safe_contents.
CallPass(m, here, r, next) ==
    /\ mode = m /\ pc = here
    /\ safe_contents' = r.text
    /\ changed' = r.changed
    /\ before' = safe_contents
    /\ trace' = Append(trace, m)
    /\ pc' = next
    /\ UNCHANGED <<mode, file_ext, contents, protected, warnings, outcome, io>>

CallReplaceFloats ==
    CallPass("float_literals", "call", replace_invalid_float_literals(safe_contents),
             "returned")

CallStripRefs ==
    CallPass("char_refs", "call", strip_invalid_numeric_char_refs(safe_contents),
             "returned")

CallSanitize == CallPass("scrub", "call", sanitize_xml(safe_contents), "again")

CallSanitizeAgain == CallPass("scrub", "again", sanitize_xml(safe_contents), "returned")

NextCalls ==
    \/ CallProtect \/ CallRestore \/ CallReplaceFloats \/ CallStripRefs
    \/ CallSanitize \/ CallSanitizeAgain

SpecCalls == InitCalls /\ [][NextCalls]_vars


(***************************************************************************)
(* Properties.                                                             *)
(***************************************************************************)
IsPrefix(a, b) == Len(a) <= Len(b) /\ SubSeq(b, 1, Len(a)) = a

\* The stages of the textual path, in the order of lines 267-294.
PipelineOrder ==
    <<"lossy_decode", "protect", "float_literals", "char_refs", "scrub", "restore",
      "decode_xml">>

RepairStages == {"protect", "float_literals", "char_refs", "scrub", "restore"}

StagesOf(t) == {t[k] : k \in 1..Len(t)}

\* C7: on the textual path the stages run once each in the order lossy decode,
\* extraction, float repair, reference repair, scrub, restoration, strict
\* decoder: what has run is always an initial part of that list, it is the
\* whole list once the file was read and the run is past the decoder, and this
\* holds whatever flags the passes returned.
C7_PassOrder ==
    (mode = "routine" /\ file_ext \in {"rbxlx", "rbxmx"}) =>
        /\ IsPrefix(trace, PipelineOrder)
        /\ (pc \in {"select_root", "create_log", "process"}) => trace = PipelineOrder
        /\ (pc = "done" /\ io.read) => trace = PipelineOrder
        /\ (pc = "decode_xml") => trace = SubSeq(PipelineOrder, 1, 6)

\* A complete textual run in which all three passes reported a change.
C7_Witness ==
    /\ mode = "routine" /\ file_ext = "rbxlx" /\ outcome = "Ok"
    /\ trace = PipelineOrder
    /\ Len(warnings) = 3

\* C6 as stated: a binary file reaches the binary decoder with no repair stage
\* run; a file with any other extension than the four always ends in
\* InvalidFile, with no I/O performed before and nothing written.
C6_DispatchAsStated ==
    /\ (mode = "routine" /\ file_ext \in {"rbxl", "rbxm"}) =>
            StagesOf(trace) \cap RepairStages = {}
    /\ (mode = "routine" /\ file_ext \in {"RBXLX", "none"} /\ pc = "done") =>
            /\ outcome = "InvalidFile"
            /\ io = NoIo

\* C6, amended: a binary file reaches the binary decoder with no repair stage
\* run and never ends in InvalidFile; a file with any other extension than the
\* four is first opened (a failure to open ends the run in IoError), ends in
\* InvalidFile whenever it could be opened, and nothing is read from it and
\* nothing is written (no stage, no warning, no log file, no tree).
C6_Dispatch ==
    /\ (mode = "routine" /\ file_ext \in {"rbxl", "rbxm"}) =>
            /\ StagesOf(trace) \subseteq {"decode_binary"}
            /\ outcome # "InvalidFile"
            /\ (pc \in {"select_root", "create_log", "process"}) =>
                    trace = <<"decode_binary">>
    /\ (mode = "routine" /\ file_ext \in {"RBXLX", "none"}) =>
            /\ trace = <<>> /\ warnings = <<>>
            /\ ~io.read /\ ~io.log_file /\ ~io.tree
            /\ pc \in {"open", "dispatch", "done"}
            /\ (pc = "done") => outcome = (IF io.opened THEN "InvalidFile" ELSE "IoError")

\* A file without extension, opened and then rejected.
C6_Witness ==
    /\ mode = "routine" /\ file_ext = "none" /\ pc = "done"
    /\ outcome = "InvalidFile" /\ io.opened

\* Positions of s whose character fails the validator.
InvalidPositions(s) == {j \in 1..Len(s) : ~is_valid_xml_codepoint(CodeOf(Ch(s, j)))}

\* The position of s holding the k-th character that passes the validator.
KthValid(s, k) ==
    CHOOSE j \in (1..Len(s)) \ InvalidPositions(s) :
        Cardinality({i \in (1..j) \ InvalidPositions(s) : TRUE}) = k

\* out is exactly the characters of s that pass the validator, in order.
IsValidPartOf(out, s) ==
    /\ Len(out) = Len(s) - Cardinality(InvalidPositions(s))
    /\ \A k \in 1..Len(out) : Ch(out, k) = Ch(s, KthValid(s, k))

\* C8: sanitize_xml returns exactly the characters of its input that pass the
\* validator, in order; its flag is true exactly when some character fails,
\* and the text is untouched when the flag is false; a second call in
\* succession returns the same text with the flag false.
C8_Scrub ==
    /\ (mode = "scrub" /\ pc = "again") =>
            /\ IsValidPartOf(safe_contents, contents)
            /\ changed = (InvalidPositions(contents) # {})
            /\ ~changed => safe_contents = contents
    /\ (mode = "scrub" /\ pc = "returned") =>
            /\ safe_contents = before
            /\ ~changed
            /\ IsValidPartOf(safe_contents, contents)

\* Two scrubs of a text with two form feeds among valid characters.
C8_Witness ==
    /\ mode = "scrub" /\ pc = "returned"
    /\ contents = "\fa\f"
    /\ safe_contents = "a"

\* The indices of the placeholders of s, left to right, as PLACEHOLDER_RE finds
\* them; m is the start of the next match.
RECURSIVE PlaceholderIndicesFrom(_, _)
PlaceholderIndicesAt(s, m) ==
    IF m = 0 THEN <<>>
    ELSE <<ParseUsize(SubSeq(s, m + 22, PlaceholderEnd(s, m) - 3))>>
         \o PlaceholderIndicesFrom(s, PlaceholderEnd(s, m))

PlaceholderIndicesFrom(s, i) ==
    PlaceholderIndicesAt(s, FirstOf({j \in i..Len(s) : PlaceholderEnd(s, j) # 0}, 0))

\* C1: protect_shared_sections followed directly by restore_shared_sections
\* gives back the original text, for any text, and the text between the two
\* calls holds exactly one placeholder per captured region, numbered 0, 1, ...
\* from left to right.
C1_RoundTrip ==
    (mode = "roundtrip" /\ pc = "returned") =>
        /\ safe_contents = contents
        /\ PlaceholderIndicesFrom(before, 1) = [k \in 1..Len(protected) |-> k - 1]

\* Number of positions of text where the string r stands.
Occurrences(text, r) == Cardinality({j \in 1..Len(text) : LitAt(text, j, r)})

\* Number of captured regions equal to r.
Captures(regions, r) == Cardinality({k \in 1..Len(regions) : regions[k] = r})

\* The regions stand in text from position i on, in capture order, without
\* overlap; p is the first place at or after i where the next region stands.
RECURSIVE InCaptureOrderFrom(_, _, _)
InCaptureOrderAt(text, regions, p) ==
    p # 0 /\ InCaptureOrderFrom(text, Tail(regions), p + Len(Head(regions)))

InCaptureOrderFrom(text, regions, i) ==
    \/ regions = <<>>
    \/ InCaptureOrderAt(text, regions,
           FirstOf({j \in i..Len(text) : LitAt(text, j, Head(regions))}, 0))

\* C2: the text handed to the strict decoder holds every captured region
\* byte for byte, in capture order, and each as many times as it was captured:
\* no pass deleted, altered or duplicated a region or its placeholder.
C2_RegionsPreserved ==
    (mode = "routine" /\ pc = "decode_xml") =>
        /\ InCaptureOrderFrom(safe_contents, protected, 1)
        /\ \A k \in 1..Len(protected) :
               Occurrences(safe_contents, protected[k]) = Captures(protected, protected[k])

IsAlnumCode(code) ==
    \/ (code >= 48 /\ code <= 57)
    \/ (code >= 65 /\ code <= 90)
    \/ (code >= 97 /\ code <= 122)

\* A reference as the claim reads it: "&#", one or more letters or digits, ";".
\* End of the reference that starts at i, or 0.
ClaimedRefEnd(s, i) ==
    IF ~LitAt(s, i, "&#") THEN 0
    ELSE RefClose(s, i + 2,
             FirstOf({j \in (i + 2)..Len(s) : ~IsAlnumCode(CodeOf(Ch(s, j)))}, Len(s) + 1))

\* The digits decode: "x" or "X" and hex digits, or decimal digits.
DigitsDecode(raw) ==
    IF LitAt(raw, 1, "x") \/ LitAt(raw, 1, "X")
    THEN Len(raw) > 1 /\ HexRunEnd(raw, 2) = Len(raw) + 1
    ELSE DecRunEnd(raw, 1) = Len(raw) + 1

ClaimedRefKept(raw) ==
    DigitsDecode(raw) /\ RefValue(raw) >= 0 /\ is_valid_xml_codepoint(RefValue(raw))

\* The text with every reference that fails to decode, or decodes to an
\* illegal codepoint, deleted; m is the start of the next reference.
RECURSIVE ClaimedStripFrom(_, _)
ClaimedStripAt(s, i, m) ==
    IF m = 0 THEN SubSeq(s, i, Len(s))
    ELSE SubSeq(s, i, m - 1)
         \o (IF ClaimedRefKept(SubSeq(s, m + 2, ClaimedRefEnd(s, m) - 2))
             THEN SubSeq(s, m, ClaimedRefEnd(s, m) - 1) ELSE "")
         \o ClaimedStripFrom(s, ClaimedRefEnd(s, m))

ClaimedStripFrom(s, i) ==
    ClaimedStripAt(s, i, FirstOf({j \in i..Len(s) : ClaimedRefEnd(s, j) # 0}, 0))

\* C3: strip_invalid_numeric_char_refs deletes every numeric character
\* reference whose digits fail to decode (such as &#abc;) or whose value is not
\* a legal codepoint, and leaves every other reference and all other text as
\* they were.
C3_RefsRepaired ==
    (mode = "char_refs" /\ pc = "returned") => safe_contents = ClaimedStripFrom(contents, 1)

\* The complete spellings the claim lists, read at j after an optional "-":
\* "nan" with an optional parenthesized payload, "infinity", "inf".
SpellingFrom(s, j) ==
    IF LitAtI(s, j, "nan")
    THEN (IF LitAt(s, j + 3, "(") /\ FindChar(s, j + 4, ")") <= Len(s)
          THEN FindChar(s, j + 4, ")") + 1 ELSE j + 3)
    ELSE IF LitAtI(s, j, "infinity") THEN j + 8
    ELSE IF LitAtI(s, j, "inf") THEN j + 3
    ELSE 0

\* End of the complete non-finite spelling that starts at i, or 0: a signed or
\* unsigned spelling, or one of 1.#IND, 1.#INF, 1.#QNAN, 1.#NAN.
SpellingEnd(s, i) ==
    IF LitAtI(s, i, "1.#qnan") THEN i + 7
    ELSE IF LitAtI(s, i, "1.#ind") \/ LitAtI(s, i, "1.#inf") \/ LitAtI(s, i, "1.#nan")
    THEN i + 6
    ELSE SpellingFrom(s, IF LitAt(s, i, "-") THEN i + 1 ELSE i)

\* The text with every complete spelling replaced by "0"; m is the start of the
\* next spelling.
RECURSIVE WholeSpellingsZeroedFrom(_, _)
WholeSpellingsZeroedAt(s, i, m) ==
    IF m = 0 THEN SubSeq(s, i, Len(s))
    ELSE SubSeq(s, i, m - 1) \o "0" \o WholeSpellingsZeroedFrom(s, SpellingEnd(s, m))

WholeSpellingsZeroedFrom(s, i) ==
    WholeSpellingsZeroedAt(s, i, FirstOf({j \in i..Len(s) : SpellingEnd(s, j) # 0}, 0))

\* C4: replace_invalid_float_literals replaces every occurrence of a complete
\* non-finite spelling, in any case, as a whole by "0" and leaves no fragment
\* of it: its result is the field normalization of the text in which every
\* complete spelling is "0".
C4_WholeSpellings ==
    (mode = "float_literals" /\ pc = "returned") =>
        safe_contents =
            NormalizeContainers(
                NormalizeContainers(WholeSpellingsZeroedFrom(contents, 1),
                                    "NumberSequence").text,
                "NumberRange").text

\* First positions of the whitespace-separated tokens of s.
TokenStarts(s) ==
    {j \in 1..Len(s) : ~IsWhitespace(Ch(s, j)) /\ (j = 1 \/ IsWhitespace(Ch(s, j - 1)))}

\* The token of s that starts at b.
TokenAt(s, b) ==
    SubSeq(s, b, FirstOf({j \in b..Len(s) : IsWhitespace(Ch(s, j))}, Len(s) + 1) - 1)

\* What the claim gives for an input token: "0" for a token that does not
\* parse and for a non-finite spelling, the canonical form otherwise.
ClaimedToken(tok) ==
    IF ParseF64(tok).kind \in {"err", "nan"} \/ SpellingEnd(tok, 1) = Len(tok) + 1 THEN "0"
    ELSE F64ToString(ParseF64(tok))

\* Single-space join of one result per token of s that starts in `starts`, in
\* order; b is the least start.
RECURSIVE ClaimedListFrom(_, _)
ClaimedListAt(s, starts, b) ==
    ClaimedToken(TokenAt(s, b))
    \o (IF starts = {b} THEN "" ELSE " " \o ClaimedListFrom(s, starts \ {b}))

ClaimedListFrom(s, starts) ==
    IF starts = {} THEN "" ELSE ClaimedListAt(s, starts, FirstOf(starts, 0))

\* The text s is one element of the given name; m is its match at position 1.
ClaimedElement(s, m) ==
    SubSeq(s, 1, m.open_end - 1)
    \o ClaimedListFrom(SubSeq(s, m.open_end, m.inner_end - 1),
                       TokenStarts(SubSeq(s, m.open_end, m.inner_end - 1)))
    \o SubSeq(s, m.inner_end, Len(s))

IsOneElement(s, name) == ContainerMatch(s, 1, name).end = Len(s) + 1

\* C5 as stated, on a text that is one NumberSequence or NumberRange element:
\* after the pass the tags are as they were and the inner text is the
\* single-space join of one result per whitespace-separated token of the
\* input, the canonical form of a token that parses and "0" for any other.
C5_PerInputToken ==
    \A name \in {"NumberSequence", "NumberRange"} :
        (mode = "float_literals" /\ pc = "returned" /\ IsOneElement(contents, name)) =>
            safe_contents = ClaimedElement(contents, ContainerMatch(contents, 1, name))

\* Single-space join of NormalizeToken of the tokens of s that start in
\* `starts`, in order; b is the least start.
RECURSIVE ExpectedListFrom(_, _)
ExpectedListAt(s, starts, b) ==
    NormalizeToken(TokenAt(s, b))
    \o (IF starts = {b} THEN "" ELSE " " \o ExpectedListFrom(s, starts \ {b}))

ExpectedListFrom(s, starts) ==
    IF starts = {} THEN "" ELSE ExpectedListAt(s, starts, FirstOf(starts, 0))

ExpectedList(inner) == ExpectedListFrom(inner, TokenStarts(inner))

\* The element of either name that starts at j, or NoContainer.
ElementAt(s, j) ==
    IF ContainerMatch(s, j, "NumberSequence").end # 0
    THEN ContainerMatch(s, j, "NumberSequence")
    ELSE ContainerMatch(s, j, "NumberRange")

\* The text s from position i on with the inner text of every element of
\* either name rewritten token by token, in one scan; b is the start of the
\* next element and m its match.
RECURSIVE ExpectedElementsFrom(_, _)
ExpectedElement(s, i, m) ==
    SubSeq(s, i, m.open_end - 1)
    \o ExpectedList(SubSeq(s, m.open_end, m.inner_end - 1))
    \o SubSeq(s, m.inner_end, m.end - 1)
    \o ExpectedElementsFrom(s, m.end)

ExpectedElementsAt(s, i, b) ==
    IF b = 0 THEN SubSeq(s, i, Len(s)) ELSE ExpectedElement(s, i, ElementAt(s, b))

ExpectedElementsFrom(s, i) ==
    ExpectedElementsAt(s, i, FirstOf({j \in i..Len(s) : ElementAt(s, j).end # 0}, 0))

\* C5, amended: in the text as the bare-token sweep leaves it, every
\* NumberSequence and NumberRange element with text content has, after the
\* pass, as inner text the single-space join, in order and one for one, of one
\* result per whitespace-separated token of that swept inner text (the f64
\* Display form of a token that parses, "0" for any other); the tags and all
\* text outside these elements are as the sweep left them.
C5_PerSweptToken ==
    (mode = "float_literals" /\ pc = "returned") =>
        safe_contents = ExpectedElementsFrom(ReplaceFloatTokens(contents).text, 1)

\* The spec's second example, with a trailing tab and a non-canonical number.
C5_Witness ==
    /\ mode = "float_literals" /\ pc = "returned"
    /\ contents = "<NumberRange a=\"1\">0.50 garbage\t</NumberRange>"
    /\ safe_contents = "<NumberRange a=\"1\">0.5 0</NumberRange>"

\* C9: the text the three repair passes leave, just before the restoration,
\* holds no numeric character reference that decodes to an illegal codepoint
\* (or does not decode) and no "nan" or "inf" in any case.
C9_NoDefectLeft ==
    (mode = "routine" /\ pc = "restore") =>
        /\ \A j \in 1..Len(safe_contents) :
               NumericCharRefEnd(safe_contents, j) # 0 =>
                   ~NumericCharRefReplacement(
                        SubSeq(safe_contents, j, NumericCharRefEnd(safe_contents, j) - 1)).changed
        /\ \A j \in 1..Len(safe_contents) :
               ~LitAtI(safe_contents, j, "nan") /\ ~LitAtI(safe_contents, j, "inf")

\* C10: each repair pass returns the flag true exactly when the text it
\* returns differs from the text it was given.
C10_FlagIffChanged ==
    (mode \in {"float_literals", "char_refs", "scrub"} /\ pc \in {"again", "returned"}) =>
        (changed <=> safe_contents # before)
=============================================================================
